---- MODULE Spec2Model ----
\* A model of the counter metric of go-metrics (package metrics): the Counter
\* interface, its three implementations StandardCounter, CounterSnapshot and
\* NilCounter, and the tag maps (Go maps, which are references to heap objects)
\* that AddTags/GetTags/Snapshot hand around.
EXTENDS Integers, Sequences, FiniteSets, TLC

\* ---------------------------------------------------------------- bounds
\* Inc and Dec calls in one run of the arithmetic specification.
MaxOps == 4
\* Calls the caller makes in one run of the sequential specifications.
MaxCalls == 6
\* Map objects the heap can hold (caller-made maps and Snapshot's copies).
MaxMaps == 3
\* CounterSnapshot objects a run creates.
MaxSnaps == 1
\* The stress test: NThreads threads call Inc(1) IncsPerThread times each.
NThreads == 3
IncsPerThread == 4
\* Calls each goroutine makes in one run of the concurrent specification.
MaxThreadCalls == 2

\* ---------------------------------------------------------------- int64
\* An int64 is kept at its width: its 64-bit two's-complement pattern, as four
\* 16-bit limbs, least significant first.
Base == 2^16
Limbs == 1..4
Int64 == [Limbs -> 0..(Base - 1)]
Zero64 == <<0, 0, 0, 0>>
MinInt64 == <<0, 0, 0, 32768>>
MaxInt64 == <<65535, 65535, 65535, 32767>>

\* x + y on int64, wrapping (what atomic.AddInt64 computes).
Add64(x, y) ==
    LET s1 == x[1] + y[1]
        s2 == x[2] + y[2] + (s1 \div Base)
        s3 == x[3] + y[3] + (s2 \div Base)
        s4 == x[4] + y[4] + (s3 \div Base)
    IN  <<s1 % Base, s2 % Base, s3 % Base, s4 % Base>>

\* A negation that saturates instead of wrapping: -MinInt64 taken as MaxInt64.
Neg64Saturating(x) ==
    IF x = MinInt64 THEN MaxInt64
    ELSE Add64(<<Base - 1 - x[1], Base - 1 - x[2], Base - 1 - x[3], Base - 1 - x[4]>>,
               <<1, 0, 0, 0>>)

\* -x on int64 (Go's unary minus wraps: -MinInt64 = MinInt64).
Neg64(x) ==
    Add64(<<Base - 1 - x[1], Base - 1 - x[2], Base - 1 - x[3], Base - 1 - x[4]>>,
          <<1, 0, 0, 0>>)

\* The int64 that the mathematical integer p * 2^63 + q wraps to (its value
\* modulo 2^64 read as a signed 64-bit integer), for |q| < 2^16.
Int64Of(p, q) ==
    LET neg == q < 0
        low == IF neg THEN Base + q ELSE q
        mid == IF neg THEN Base - 1 ELSE 0
        top == IF p % 2 = 0 THEN mid
               ELSE IF neg THEN 32767 ELSE 32768
    IN  <<low, mid, mid, top>>

\* A small integer as an int64.
I64(n) == Int64Of(0, n)

\* ---------------------------------------------------------------- objects
CounterIds == 1..2
Keys == {"a", "b"}
Vals == {"1", "2", "3"}
\* A map entry that is not there.
Absent == "absent"
\* The nil map reference.
Nil == 0
MapIds == 1..MaxMaps
\* The contents of a Go map[string]string.
MapContents == [Keys -> Vals \cup {Absent}]
EmptyMap == [k \in Keys |-> Absent]
MapLen(m) == Cardinality({k \in Keys : m[k] # Absent})

VARIABLES
    kind,           \* kind[c]: "none" (not constructed), "StandardCounter", "NilCounter"
    count,          \* count[c]: StandardCounter.count
    tags,           \* tags[c]: StandardCounter.tags, Nil or a map's id
    UseNilMetrics,  \* the process-wide flag NewCounter reads
    heap,           \* heap[m]: the contents of map m (ids 1..nmaps are allocated)
    nmaps,          \* the number of maps allocated
    snaps,          \* the CounterSnapshot objects, in order of creation
    held,           \* the map references the caller holds
    given,          \* given[c]: the maps passed to c.AddTags or returned by c.GetTags
    fromSnap,       \* the maps a CounterSnapshot's GetTags returned
    last,           \* the last call: its operation, receiver, argument and result
    panicked,       \* the last call panicked
    addHist,        \* the contents of the maps given to AddTags, in call order
    steps,          \* the calls made so far
    netP, netQ,     \* the sum of the Inc amounts minus the Dec amounts, netP * 2^63 + netQ
    pc,             \* pc[t]: where thread t is
    done,           \* done[t]: the calls thread t has finished
    loc,            \* loc[t]: thread t's local variables
    writing,        \* writing[m]: the threads in the middle of a write to map m
    crashed         \* the runtime ended the program with a fatal error

objVars == <<kind, count, tags, UseNilMetrics>>
heapVars == <<heap, nmaps>>
callerVars == <<held, given, fromSnap>>
ghostVars == <<netP, netQ, addHist>>
threadVars == <<pc, done, loc, writing, crashed>>
callVars == <<last, panicked>>
vars == <<kind, count, tags, UseNilMetrics, heap, nmaps, snaps, held, given, fromSnap,
          last, panicked, addHist, steps, netP, netQ, pc, done, loc, writing, crashed>>

Threads == 1..NThreads

\* ---------------------------------------------------------------- StandardCounter
\* A Clear that leaves the count as it is.
StandardCounterClearKeeps(c) ==
    count' = count

\* func (c *StandardCounter) Clear()
StandardCounterClear(c) ==
    count' = [count EXCEPT ![c] = Zero64]

\* A Count that reads the 64 bits in two halves of which the upper is stale: a
\* torn read.
StandardCounterCountTorn(c) == [count[c] EXCEPT ![3] = 0, ![4] = 0]

\* func (c *StandardCounter) Count() int64
StandardCounterCount(c) == count[c]

\* func (c *StandardCounter) Dec(i int64)
StandardCounterDec(c, i) ==
    count' = [count EXCEPT ![c] = Add64(@, Neg64(i))]

\* Inc that stores the amount instead of adding it.
StandardCounterIncStores(c, i) ==
    count' = [count EXCEPT ![c] = i]

\* Inc on a count that all counters share (a package-level variable).
StandardCounterIncShared(c, i) ==
    count' = [d \in CounterIds |-> Add64(count[d], i)]

\* func (c *StandardCounter) Inc(i int64)
StandardCounterInc(c, i) ==
    count' = [count EXCEPT ![c] = Add64(@, i)]

\* Snapshot that keeps the live counter's map instead of copying it.
StandardCounterSnapshotShares(c) ==
    /\ snaps' = Append(snaps, [count |-> StandardCounterCount(c), tags |-> tags[c], src |-> c])
    /\ UNCHANGED <<heap, nmaps>>

\* Snapshot that leaves the tags out.
StandardCounterSnapshotDropsTags(c) ==
    /\ snaps' = Append(snaps, [count |-> StandardCounterCount(c), tags |-> Nil, src |-> c])
    /\ UNCHANGED <<heap, nmaps>>

\* for k, v := range c.tags { tagsCopy[k] = v } into a fresh map
TagsCopy(m) == [k \in Keys |-> m[k]]

\* func (c *StandardCounter) Snapshot() Counter, run without interruption. The
\* new CounterSnapshot is appended to snaps; src records the counter it is of.
StandardCounterSnapshot(c) ==
    IF tags[c] = Nil \/ MapLen(heap[tags[c]]) = 0
    THEN /\ snaps' = Append(snaps, [count |-> StandardCounterCount(c), tags |-> Nil,
                                    src |-> c])
         /\ UNCHANGED <<heap, nmaps>>
    ELSE /\ nmaps' = nmaps + 1
         /\ heap' = [heap EXCEPT ![nmaps + 1] = TagsCopy(heap[tags[c]])]
         /\ snaps' = Append(snaps, [count |-> StandardCounterCount(c), tags |-> nmaps + 1,
                                    src |-> c])

\* A merge that keeps the old value of a key that is already there.
MergeKeepsOld(dst, src) ==
    [k \in Keys |-> IF dst[k] # Absent THEN dst[k] ELSE src[k]]

\* A merge that makes the map hold the given entries only.
MergeReplaces(dst, src) == src

\* for k, tag := range tags { c.tags[k] = tag }
MergeInto(dst, src) ==
    [k \in Keys |-> IF src[k] # Absent THEN src[k] ELSE dst[k]]

\* The contents of the map a reference names (a nil map has no entries).
Entries(m) == IF m = Nil THEN EmptyMap ELSE heap[m]

\* AddTags that copies the first map it is given instead of adopting it.
StandardCounterAddTagsCopies(c, m) ==
    IF tags[c] = Nil
    THEN IF m = Nil \/ nmaps >= MaxMaps
         THEN tags' = [tags EXCEPT ![c] = m] /\ UNCHANGED <<heap, nmaps>>
         ELSE /\ nmaps' = nmaps + 1
              /\ heap' = [heap EXCEPT ![nmaps + 1] = heap[m]]
              /\ tags' = [tags EXCEPT ![c] = nmaps + 1]
    ELSE /\ heap' = [heap EXCEPT ![tags[c]] = MergeInto(@, Entries(m))]
         /\ UNCHANGED <<tags, nmaps>>

\* AddTags that adopts the given map whenever the counter has no entries
\* (if len(c.tags) == 0), not only when it has no map.
StandardCounterAddTagsAdoptsOnEmpty(c, m) ==
    IF tags[c] = Nil \/ MapLen(heap[tags[c]]) = 0
    THEN /\ tags' = [tags EXCEPT ![c] = m]
         /\ UNCHANGED <<heap, nmaps>>
    ELSE /\ heap' = [heap EXCEPT ![tags[c]] = MergeInto(@, Entries(m))]
         /\ UNCHANGED <<tags, nmaps>>

\* func (c *StandardCounter) AddTags(tags map[string]string), run without
\* interruption.
StandardCounterAddTags(c, m) ==
    IF tags[c] = Nil
    THEN /\ tags' = [tags EXCEPT ![c] = m]
         /\ UNCHANGED <<heap, nmaps>>
    ELSE /\ heap' = [heap EXCEPT ![tags[c]] = MergeInto(@, Entries(m))]
         /\ UNCHANGED <<tags, nmaps>>

\* func (c *StandardCounter) GetTags() map[string]string
StandardCounterGetTags(c) == tags[c]

\* ---------------------------------------------------------------- CounterSnapshot
\* An Inc of CounterSnapshot that does nothing, as NilCounter's does.
CounterSnapshotIncSilent(s, i) ==
    /\ panicked' = FALSE
    /\ UNCHANGED snaps

\* panic("... called on a CounterSnapshot"): Clear, Dec, Inc and AddTags.
CounterSnapshotPanic ==
    /\ panicked' = TRUE
    /\ UNCHANGED snaps

\* func (c *CounterSnapshot) Clear()
CounterSnapshotClear(s) == CounterSnapshotPanic
\* func (c *CounterSnapshot) Dec(int64)
CounterSnapshotDec(s, i) == CounterSnapshotPanic
\* func (c *CounterSnapshot) Inc(int64)
CounterSnapshotInc(s, i) == CounterSnapshotPanic
\* func (c *CounterSnapshot) AddTags(tags map[string]string)
CounterSnapshotAddTags(s, m) == CounterSnapshotPanic
\* func (c *CounterSnapshot) Count() int64
CounterSnapshotCount(s) == snaps[s].count
\* func (c *CounterSnapshot) GetTags() map[string]string
CounterSnapshotGetTags(s) == snaps[s].tags
\* A Snapshot of CounterSnapshot that returns the newest snapshot made, not the
\* receiver.
CounterSnapshotSnapshotNewest(s) == Len(snaps)
\* func (c *CounterSnapshot) Snapshot() Counter
CounterSnapshotSnapshot(s) == s

\* ---------------------------------------------------------------- NilCounter
\* NilCounter is struct{}: it has no field, and its methods have empty bodies.
\* func (NilCounter) Clear(), Dec(i int64), Inc(i int64)
NilCounterClear == UNCHANGED <<count, tags>>
NilCounterDec(i) == UNCHANGED <<count, tags>>
NilCounterInc(i) == UNCHANGED <<count, tags>>
\* func (NilCounter) Count() int64
NilCounterCount == Zero64
\* A Snapshot of NilCounter that returns an empty CounterSnapshot.
NilCounterSnapshotReturnsSnapshot == "CounterSnapshot"
\* func (NilCounter) Snapshot() Counter: the kind of the Counter returned
NilCounterSnapshot == "NilCounter"
\* func (NilCounter) AddTags(tags map[string]string)
NilCounterAddTags(m) == UNCHANGED <<count, tags, heap, nmaps>>
\* func (NilCounter) GetTags() map[string]string
NilCounterGetTags == Nil

\* ---------------------------------------------------------------- construction
\* A NewCounter that does not look at UseNilMetrics.
NewCounterIgnoresFlag(c) ==
    /\ kind' = [kind EXCEPT ![c] = "StandardCounter"]
    /\ count' = [count EXCEPT ![c] = Zero64]
    /\ tags' = [tags EXCEPT ![c] = Nil]

\* func NewCounter() Counter, the new object being c.
NewCounter(c) ==
    /\ kind' = [kind EXCEPT ![c] = IF UseNilMetrics THEN "NilCounter"
                                   ELSE "StandardCounter"]
    /\ count' = [count EXCEPT ![c] = Zero64]
    /\ tags' = [tags EXCEPT ![c] = Nil]

\* ---------------------------------------------------------------- calls
\* The record of a call: op on the receiver (rk, rid), with the int64 it took or
\* returned (num), the map it took or returned (ref), and the Counter it
\* returned (resk, and rsnap when that is a CounterSnapshot).
Call(op, rk, rid, num, ref, resk, rsnap) ==
    [op |-> op, rk |-> rk, rid |-> rid, num |-> num, ref |-> ref,
     resk |-> resk, rsnap |-> rsnap]
NoCall == Call("none", "none", 0, Zero64, Nil, "none", 0)

\* A goroutine's local variables inside AddTags (arg: the parameter tags; dst:
\* c.tags as read; k, v: the loop's k, tag) and inside Snapshot (src: c.tags as
\* read; copy: tagsCopy); todo: the keys a range loop has not come to yet.
\* cnt0 is not in the code: it keeps what the count was when the goroutine's
\* last Snapshot call began.
NoLoc == [arg |-> Nil, dst |-> Nil, src |-> Nil, copy |-> Nil, todo |-> {},
          k |-> "", v |-> "", cnt0 |-> Zero64]

InitCommon ==
    /\ UseNilMetrics = FALSE
    /\ heap = [m \in MapIds |-> EmptyMap]
    /\ nmaps = 0
    /\ snaps = <<>>
    /\ held = {}
    /\ given = [c \in CounterIds |-> {}]
    /\ fromSnap = {}
    /\ last = NoCall
    /\ panicked = FALSE
    /\ addHist = <<>>
    /\ steps = 0
    /\ netP = 0
    /\ netQ = 0
    /\ pc = [t \in Threads |-> "idle"]
    /\ done = [t \in Threads |-> 0]
    /\ loc = [t \in Threads |-> NoLoc]
    /\ writing = [m \in MapIds |-> {}]
    /\ crashed = FALSE

\* ---------------------------------------------------------------- arithmetic runs
\* One caller, one fresh StandardCounter, Inc and Dec with amounts at and around
\* the ends of the int64 range. An amount is p * 2^63 + q.
Amounts ==
    { [p |-> 0, q |-> 1], [p |-> 0, q |-> -1], [p |-> 0, q |-> 2],
      [p |-> 1, q |-> -1], [p |-> -1, q |-> 0], [p |-> -1, q |-> 1] }
AmountInt64(a) == Int64Of(a.p, a.q)

\* &StandardCounter{count: 0} made once, by NewCounter with UseNilMetrics unset.
InitArith ==
    /\ InitCommon
    /\ kind = [c \in CounterIds |-> IF c = 1 THEN "StandardCounter" ELSE "none"]
    /\ count = [c \in CounterIds |-> Zero64]
    /\ tags = [c \in CounterIds |-> Nil]

ArithInc(a) ==
    /\ steps < MaxOps
    /\ StandardCounterInc(1, AmountInt64(a))
    /\ netP' = netP + a.p
    /\ netQ' = netQ + a.q
    /\ last' = Call("Inc", "StandardCounter", 1, AmountInt64(a), Nil, "none", 0)
    /\ steps' = steps + 1
    /\ UNCHANGED <<kind, tags, UseNilMetrics, heapVars, snaps, callerVars, panicked,
                   addHist, threadVars>>

ArithDec(a) ==
    /\ steps < MaxOps
    /\ StandardCounterDec(1, AmountInt64(a))
    /\ netP' = netP - a.p
    /\ netQ' = netQ - a.q
    /\ last' = Call("Dec", "StandardCounter", 1, AmountInt64(a), Nil, "none", 0)
    /\ steps' = steps + 1
    /\ UNCHANGED <<kind, tags, UseNilMetrics, heapVars, snaps, callerVars, panicked,
                   addHist, threadVars>>

ArithCount ==
    /\ last' = Call("Count", "StandardCounter", 1, StandardCounterCount(1), Nil, "none", 0)
    /\ UNCHANGED <<objVars, heapVars, snaps, callerVars, panicked, steps, ghostVars,
                   threadVars>>

NextArith ==
    \/ \E a \in Amounts : ArithInc(a)
    \/ \E a \in Amounts : ArithDec(a)
    \/ ArithCount

SpecArith == InitArith /\ [][NextArith]_vars

\* C1: after any sequence of Inc(a) and Dec(b) by one caller on a fresh
\* StandardCounter, Count() is the sum of the a minus the sum of the b modulo
\* 2^64 read as a signed 64-bit integer, also when an amount is the minimum
\* int64 (whose negation overflows) and when the sum wraps.
CountIsWrappedSum ==
    /\ StandardCounterCount(1) = Int64Of(netP, netQ)
    /\ last.op = "Count" => last.num = Int64Of(netP, netQ)

\* Dec(MinInt64) has just run and the sum, 3 * 2^63 - 2, is outside the int64
\* range: Count() is the wrapped value 2^63 - 2.
CountIsWrappedSumWitness ==
    /\ last.op = "Dec"
    /\ last.num = MinInt64
    /\ netP = 3
    /\ netQ = -2
    /\ StandardCounterCount(1) = <<65534, 65535, 65535, 32767>>

\* ---------------------------------------------------------------- one caller
\* One caller (one goroutine) makes counters and maps and calls the methods, each
\* call running to its end before the next. The caller holds the maps it made
\* and the maps GetTags returned, and may write to them between calls.
\* Init is the state after NewCounter, with UseNilMetrics unset, has returned one
\* StandardCounter.
Init ==
    /\ InitCommon
    /\ kind = [c \in CounterIds |-> IF c = 1 THEN "StandardCounter" ELSE "none"]
    /\ count = [c \in CounterIds |-> Zero64]
    /\ tags = [c \in CounterIds |-> Nil]

\* The maps a caller passes to AddTags when it makes them.
TagInputs ==
    { EmptyMap,
      [k \in Keys |-> IF k = "a" THEN "1" ELSE Absent],
      [k \in Keys |-> IF k = "a" THEN "2" ELSE "3"] }

Std(c) == kind[c] = "StandardCounter"
IsNil(c) == kind[c] = "NilCounter"
SnapIds == 1..Len(snaps)
\* What the caller writes into a map it holds: a value, or a delete.
WriteVals == {"3", Absent}
NonNil(m) == {m} \ {Nil}

\* A call that returns: one more call made, and no panic.
Returned ==
    /\ steps < MaxCalls
    /\ steps' = steps + 1
    /\ panicked' = FALSE

SeqNewCounter ==
    /\ Returned
    /\ \E c \in CounterIds :
        /\ kind[c] = "none"
        /\ \A d \in CounterIds : d < c => kind[d] # "none"
        /\ NewCounter(c)
        /\ last' = Call("NewCounter", "none", c, Zero64, Nil, kind'[c], 0)
    /\ UNCHANGED <<UseNilMetrics, heapVars, snaps, callerVars, ghostVars, threadVars>>

\* The embedding program sets the package variable UseNilMetrics.
SetUseNilMetrics(b) ==
    /\ Returned
    /\ b # UseNilMetrics
    /\ UseNilMetrics' = b
    /\ last' = Call("SetUseNilMetrics", "none", 0, Zero64, Nil, "none", 0)
    /\ UNCHANGED <<kind, count, tags, heapVars, snaps, callerVars, ghostVars, threadVars>>

\* m := map[string]string{...} in the caller.
CallerMakeMap(e) ==
    /\ Returned
    /\ nmaps < MaxMaps
    /\ nmaps' = nmaps + 1
    /\ heap' = [heap EXCEPT ![nmaps + 1] = e]
    /\ held' = held \cup {nmaps + 1}
    /\ last' = Call("MakeMap", "caller", 0, Zero64, nmaps + 1, "none", 0)
    /\ UNCHANGED <<objVars, snaps, given, fromSnap, ghostVars, threadVars>>

\* m[k] = v, or delete(m, k) when v is Absent, on a map the caller holds.
CallerWrite(m, k, v) ==
    /\ Returned
    /\ m \in held
    /\ heap[m][k] # v
    /\ heap' = [heap EXCEPT ![m][k] = v]
    /\ last' = Call("Write", "caller", 0, Zero64, m, "none", 0)
    /\ UNCHANGED <<objVars, nmaps, snaps, callerVars, ghostVars, threadVars>>

SeqStdClear(c) ==
    /\ Returned
    /\ Std(c)
    /\ StandardCounterClear(c)
    /\ last' = Call("Clear", "StandardCounter", c, Zero64, Nil, "none", 0)
    /\ UNCHANGED <<kind, tags, UseNilMetrics, heapVars, snaps, callerVars, ghostVars,
                   threadVars>>

SeqStdCount(c) ==
    /\ Returned
    /\ Std(c)
    /\ last' = Call("Count", "StandardCounter", c, StandardCounterCount(c), Nil, "none", 0)
    /\ UNCHANGED <<objVars, heapVars, snaps, callerVars, ghostVars, threadVars>>

SeqStdDec(c, i) ==
    /\ Returned
    /\ Std(c)
    /\ StandardCounterDec(c, i)
    /\ last' = Call("Dec", "StandardCounter", c, i, Nil, "none", 0)
    /\ UNCHANGED <<kind, tags, UseNilMetrics, heapVars, snaps, callerVars, ghostVars,
                   threadVars>>

SeqStdInc(c, i) ==
    /\ Returned
    /\ Std(c)
    /\ StandardCounterInc(c, i)
    /\ last' = Call("Inc", "StandardCounter", c, i, Nil, "none", 0)
    /\ UNCHANGED <<kind, tags, UseNilMetrics, heapVars, snaps, callerVars, ghostVars,
                   threadVars>>

\* Snapshot needs room for the CounterSnapshot (n of them at most) and for the
\* copy of the tags.
StdSnapshotCall(c, n) ==
    /\ Returned
    /\ Std(c)
    /\ Len(snaps) < n
    /\ nmaps < MaxMaps
    /\ StandardCounterSnapshot(c)
    /\ last' = Call("Snapshot", "StandardCounter", c, Zero64, Nil, "CounterSnapshot",
                    Len(snaps) + 1)
    /\ UNCHANGED <<objVars, callerVars, ghostVars, threadVars>>

SeqStdSnapshot(c) == StdSnapshotCall(c, MaxSnaps)

SeqStdAddTags(c, m) ==
    /\ Returned
    /\ Std(c)
    /\ m \in held \cup {Nil}
    /\ StandardCounterAddTags(c, m)
    /\ given' = [given EXCEPT ![c] = @ \cup NonNil(m)]
    /\ last' = Call("AddTags", "StandardCounter", c, Zero64, m, "none", 0)
    /\ UNCHANGED <<kind, count, UseNilMetrics, snaps, held, fromSnap, ghostVars,
                   threadVars>>

SeqStdGetTags(c) ==
    /\ Returned
    /\ Std(c)
    /\ held' = held \cup NonNil(StandardCounterGetTags(c))
    /\ given' = [given EXCEPT ![c] = @ \cup NonNil(StandardCounterGetTags(c))]
    /\ last' = Call("GetTags", "StandardCounter", c, Zero64, StandardCounterGetTags(c),
                    "none", 0)
    /\ UNCHANGED <<objVars, heapVars, snaps, fromSnap, ghostVars, threadVars>>

\* The methods of NilCounter: none has a body, so none changes anything.
SeqNilMutate(c) ==
    /\ Returned
    /\ IsNil(c)
    /\ \/ /\ NilCounterClear
          /\ last' = Call("Clear", "NilCounter", c, Zero64, Nil, "none", 0)
          /\ UNCHANGED <<heap, nmaps, given>>
       \/ /\ NilCounterDec(I64(1))
          /\ last' = Call("Dec", "NilCounter", c, I64(1), Nil, "none", 0)
          /\ UNCHANGED <<heap, nmaps, given>>
       \/ /\ NilCounterInc(I64(1))
          /\ last' = Call("Inc", "NilCounter", c, I64(1), Nil, "none", 0)
          /\ UNCHANGED <<heap, nmaps, given>>
       \/ \E m \in held \cup {Nil} :
             /\ NilCounterAddTags(m)
             /\ given' = [given EXCEPT ![c] = @ \cup NonNil(m)]
             /\ last' = Call("AddTags", "NilCounter", c, Zero64, m, "none", 0)
    /\ UNCHANGED <<kind, UseNilMetrics, snaps, held, fromSnap, ghostVars, threadVars>>

SeqNilRead(c) ==
    /\ Returned
    /\ IsNil(c)
    /\ \/ last' = Call("Count", "NilCounter", c, NilCounterCount, Nil, "none", 0)
       \/ last' = Call("GetTags", "NilCounter", c, Zero64, NilCounterGetTags, "none", 0)
       \/ last' = Call("Snapshot", "NilCounter", c, Zero64, Nil, NilCounterSnapshot, 0)
    /\ UNCHANGED <<objVars, heapVars, snaps, callerVars, ghostVars, threadVars>>

\* A mutator called on a CounterSnapshot: the call panics, and the caller
\* recovers and goes on.
SeqSnapMutate(s) ==
    /\ steps < MaxCalls
    /\ steps' = steps + 1
    /\ s \in SnapIds
    /\ \/ /\ CounterSnapshotClear(s)
          /\ last' = Call("Clear", "CounterSnapshot", s, Zero64, Nil, "none", 0)
       \/ \E i \in {I64(1), MinInt64} :
             /\ CounterSnapshotDec(s, i)
             /\ last' = Call("Dec", "CounterSnapshot", s, i, Nil, "none", 0)
       \/ \E i \in {I64(1), MinInt64} :
             /\ CounterSnapshotInc(s, i)
             /\ last' = Call("Inc", "CounterSnapshot", s, i, Nil, "none", 0)
       \/ \E m \in held \cup {Nil} :
             /\ CounterSnapshotAddTags(s, m)
             /\ last' = Call("AddTags", "CounterSnapshot", s, Zero64, m, "none", 0)
    /\ UNCHANGED <<objVars, heapVars, callerVars, ghostVars, threadVars>>

SeqSnapCount(s) ==
    /\ Returned
    /\ s \in SnapIds
    /\ last' = Call("Count", "CounterSnapshot", s, CounterSnapshotCount(s), Nil, "none", 0)
    /\ UNCHANGED <<objVars, heapVars, snaps, callerVars, ghostVars, threadVars>>

SeqSnapGetTags(s) ==
    /\ Returned
    /\ s \in SnapIds
    /\ held' = held \cup NonNil(CounterSnapshotGetTags(s))
    /\ fromSnap' = fromSnap \cup NonNil(CounterSnapshotGetTags(s))
    /\ last' = Call("GetTags", "CounterSnapshot", s, Zero64, CounterSnapshotGetTags(s),
                    "none", 0)
    /\ UNCHANGED <<objVars, heapVars, snaps, given, ghostVars, threadVars>>

SeqSnapSnapshot(s) ==
    /\ Returned
    /\ s \in SnapIds
    /\ last' = Call("Snapshot", "CounterSnapshot", s, Zero64, Nil, "CounterSnapshot",
                    CounterSnapshotSnapshot(s))
    /\ UNCHANGED <<objVars, heapVars, snaps, callerVars, ghostVars, threadVars>>

Next ==
    \/ \E e \in TagInputs : CallerMakeMap(e)
    \/ \E m \in MapIds, k \in Keys, v \in WriteVals : CallerWrite(m, k, v)
    \/ \E c \in CounterIds : SeqStdClear(c)
    \/ \E c \in CounterIds : SeqStdCount(c)
    \/ \E c \in CounterIds : SeqStdDec(c, I64(1))
    \/ \E c \in CounterIds : SeqStdInc(c, I64(1))
    \/ \E c \in CounterIds : SeqStdSnapshot(c)
    \/ \E c \in CounterIds, m \in MapIds \cup {Nil} : SeqStdAddTags(c, m)
    \/ \E c \in CounterIds : SeqStdGetTags(c)
    \/ \E s \in 1..MaxSnaps : SeqSnapMutate(s)
    \/ \E s \in 1..MaxSnaps : SeqSnapCount(s)
    \/ \E s \in 1..MaxSnaps : SeqSnapGetTags(s)
    \/ \E s \in 1..MaxSnaps : SeqSnapSnapshot(s)

Spec == Init /\ [][Next]_vars

\* ---------------------------------------------------------------- what a caller sees
\* Count() and the entries of GetTags() of StandardCounter c and of snapshot s.
StdView(c) == [count |-> StandardCounterCount(c), tags |-> Entries(StandardCounterGetTags(c))]
SnapView(s) == [count |-> CounterSnapshotCount(s), tags |-> Entries(CounterSnapshotGetTags(s))]
StdCall(c, ops) ==
    /\ last'.rk = "StandardCounter"
    /\ last'.rid = c
    /\ last'.op \in ops

\* C3: Snapshot() on a StandardCounter holding value V and tags T, with nothing
\* else running on the counter, returns an object whose Count() is V and whose
\* GetTags() has exactly the entries of T (none when T is empty or absent).
SnapshotHoldsValueAndTags ==
    [][\A c \in CounterIds : \A s \in 1..MaxSnaps :
          (StdCall(c, {"Snapshot"}) /\ last'.rsnap = s)
              => /\ last'.resk = "CounterSnapshot"
                 /\ s = Len(snaps')
                 /\ SnapView(s)' = StdView(c)]_vars

\* Snapshot() has just returned a snapshot of a counter with value 1 and two tags.
SnapshotHoldsValueAndTagsWitness ==
    /\ last.op = "Snapshot"
    /\ last.rk = "StandardCounter"
    /\ SnapView(last.rsnap).count = I64(1)
    /\ SnapView(last.rsnap).tags = [k \in Keys |-> IF k = "a" THEN "2" ELSE "3"]

\* The snapshot's map is not the map of the counter it was taken from.
SnapshotMapNotShared ==
    \A s \in SnapIds : snaps[s].tags # Nil => snaps[s].tags # tags[snaps[s].src]

\* C4 as stated: after any Inc, Dec, Clear or AddTags on the original counter,
\* and any write by the caller to a map it passed to or obtained from the
\* original, the snapshot's Count() and GetTags() entries are as when Snapshot()
\* returned, and the snapshot's map is never the live counter's map.
SnapshotIndependentOfAnyWrite ==
    [][/\ \A s \in SnapIds :
            (\/ StdCall(snaps[s].src, {"Inc", "Dec", "Clear", "AddTags"})
             \/ (last'.op = "Write" /\ last'.ref \in given[snaps[s].src]))
                => SnapView(s)' = SnapView(s)
       /\ SnapshotMapNotShared']_vars

\* C4, amended: the same, for every write by the caller to a map it passed to
\* or obtained from the original other than the map the snapshot's own
\* GetTags() returned (CounterSnapshot.GetTags returns the snapshot's map itself,
\* so a write to that map does change the snapshot).
SnapshotIndependent ==
    [][/\ \A s \in SnapIds :
            (\/ StdCall(snaps[s].src, {"Inc", "Dec", "Clear", "AddTags"})
             \/ (last'.op = "Write" /\ last'.ref \in given[snaps[s].src] \ fromSnap))
                => SnapView(s)' = SnapView(s)
       /\ SnapshotMapNotShared']_vars

\* A snapshot with a tag exists, and the original has since got another count
\* and other tags by Inc and by a caller's write to the map the counter adopted.
SnapshotIndependentWitness ==
    \E s \in SnapIds :
        /\ snaps[s].tags # Nil
        /\ last.op = "Write"
        /\ last.ref = tags[snaps[s].src]
        /\ StdView(snaps[s].src).count # SnapView(s).count
        /\ StdView(snaps[s].src).tags # SnapView(s).tags

\* C5: Clear, Inc, Dec and AddTags on a CounterSnapshot panic on every call, for
\* every argument, and leave its Count() and GetTags() as they were; Count,
\* GetTags and Snapshot on a CounterSnapshot never panic.
SnapshotMutatorsPanic ==
    [][last'.rk = "CounterSnapshot"
          => /\ last'.op \in {"Clear", "Inc", "Dec", "AddTags"}
                   => /\ panicked'
                      /\ \A s \in SnapIds : SnapView(s)' = SnapView(s)
             /\ last'.op \in {"Count", "GetTags", "Snapshot"} => ~panicked']_vars

\* Inc(MinInt64) was called on a snapshot that has tags, and panicked.
SnapshotMutatorsPanicWitness ==
    /\ panicked
    /\ last.rk = "CounterSnapshot"
    /\ last.op = "Inc"
    /\ last.num = MinInt64
    /\ snaps[last.rid].tags # Nil

\* C6 as stated: the map holding a StandardCounter's tags is never a map the
\* caller holds, so no write by the caller to a map changes what GetTags()
\* reports, and AddTags never writes into a map passed to an earlier AddTags.
TagsOwnedExclusively ==
    [][\A c \in CounterIds : Std(c) =>
          /\ tags'[c] \notin held'
          /\ last'.op = "Write" => Entries(tags[c])' = Entries(tags[c])
          /\ StdCall(c, {"AddTags"}) => \A m \in given[c] : heap'[m] = heap[m]]_vars

\* C6, amended: the map holding a StandardCounter's tags is the first non-nil
\* map passed to its AddTags, adopted by reference and never replaced, and
\* GetTags returns that map: the caller holds it too. A write by the caller
\* changes what GetTags() reports exactly when it is to that map, and AddTags
\* writes into that map and into no other.
TagsAdoptedByReference ==
    [][\A c \in CounterIds : Std(c) =>
          /\ tags[c] # Nil => tags'[c] = tags[c]
          /\ tags'[c] # Nil => tags'[c] \in held' \cap given'[c]
          /\ StdCall(c, {"AddTags"})
                => /\ tags[c] = Nil => (tags'[c] = last'.ref /\ heap' = heap)
                   /\ \A m \in MapIds \ {tags[c]} : heap'[m] = heap[m]
          /\ StdCall(c, {"GetTags"}) => last'.ref = tags[c]
          /\ last'.op = "Write"
                => (Entries(tags[c])' # Entries(tags[c]) <=> last'.ref = tags[c])]_vars

\* The caller has written to the map the counter adopted from an AddTags call,
\* after a second AddTags wrote into that map.
TagsAdoptedByReferenceWitness ==
    /\ last.op = "Write"
    /\ last.ref = tags[1]
    /\ last.ref \in held
    /\ Cardinality(given[1]) = 2
    /\ heap[tags[1]] = [k \in Keys |-> "3"]

\* ---------------------------------------------------------------- two counters
\* One caller with two StandardCounters, which it may give the same map.
InitTwo ==
    /\ InitCommon
    /\ kind = [c \in CounterIds |-> "StandardCounter"]
    /\ count = [c \in CounterIds |-> Zero64]
    /\ tags = [c \in CounterIds |-> Nil]

NextTwo ==
    \/ \E e \in TagInputs : CallerMakeMap(e)
    \/ \E c \in CounterIds : SeqStdClear(c)
    \/ \E c \in CounterIds : SeqStdDec(c, I64(1))
    \/ \E c \in CounterIds : SeqStdInc(c, I64(1))
    \/ \E c \in CounterIds : SeqStdSnapshot(c)
    \/ \E c \in CounterIds, m \in MapIds \cup {Nil} : SeqStdAddTags(c, m)
    \/ \E c \in CounterIds : SeqStdGetTags(c)

SpecTwo == InitTwo /\ [][NextTwo]_vars

Mutators == {"Inc", "Dec", "Clear", "AddTags", "Snapshot"}

\* C7 as stated: no Inc, Dec, Clear, AddTags or Snapshot on one StandardCounter
\* changes Count() or the GetTags() entries of another, also when the same map
\* is passed to AddTags of both.
CountersIndependentOfSharedMap ==
    [][\A c \in CounterIds, d \in CounterIds :
          (c # d /\ StdCall(c, Mutators)) => StdView(d)' = StdView(d)]_vars

\* C7, amended: no such call on one counter changes Count() of another or which
\* map the other holds, and it changes the GetTags() entries of another only
\* when both counters hold the same map, which they do after the same map was
\* the first non-nil argument of AddTags of both (each adopts it by reference).
CountersIndependent ==
    [][\A c \in CounterIds, d \in CounterIds :
          (c # d /\ StdCall(c, Mutators))
              => /\ count'[d] = count[d]
                 /\ tags'[d] = tags[d]
                 /\ (tags[d] = Nil \/ tags[d] # tags[c]) => StdView(d)' = StdView(d)
                 /\ StdView(d)' # StdView(d) => tags[d] \in given[c] \cap given[d]]_vars

\* AddTags on counter 1 has merged a map that was also given to counter 2; the
\* counters hold different maps, and counter 2 reports what it did before.
CountersIndependentWitness ==
    /\ last.op = "AddTags"
    /\ last.rid = 1
    /\ last.ref = tags[2]
    /\ tags[1] \notin {Nil, tags[2]}
    /\ Entries(tags[1]) = [k \in Keys |-> IF k = "a" THEN "2" ELSE "3"]
    /\ count[1] # count[2]

\* ---------------------------------------------------------------- AddTags runs
\* One caller makes maps and passes them to AddTags of one fresh
\* StandardCounter; addHist records what each call was given.
TagsAddTags(c, m) ==
    /\ Returned
    /\ Std(c)
    /\ m \in held \cup {Nil}
    /\ StandardCounterAddTags(c, m)
    /\ given' = [given EXCEPT ![c] = @ \cup NonNil(m)]
    /\ addHist' = Append(addHist, Entries(m))
    /\ last' = Call("AddTags", "StandardCounter", c, Zero64, m, "none", 0)
    /\ UNCHANGED <<kind, count, UseNilMetrics, snaps, held, fromSnap, netP, netQ,
                   threadVars>>

MoreTagInputs ==
    TagInputs \cup { [k \in Keys |-> IF k = "b" THEN "1" ELSE Absent] }

NextTags ==
    \/ \E e \in MoreTagInputs : CallerMakeMap(e)
    \/ \E m \in MapIds \cup {Nil} : TagsAddTags(1, m)
    \/ SeqStdGetTags(1)

SpecTags == Init /\ [][NextTags]_vars

\* The value key k has in the last of the maps t1..tn that contains it.
LastGiven(h, k) ==
    LET with == {j \in 1..Len(h) : h[j][k] # Absent}
    IN  IF with = {} THEN Absent
        ELSE h[CHOOSE j \in with : \A j2 \in with : j2 <= j][k]

\* C8: after AddTags(t1), ..., AddTags(tn) by one caller on a fresh
\* StandardCounter, GetTags() has exactly the keys that occur in some ti, each
\* with the value the last ti that contains it gives.
TagsAreRightBiasedUnion ==
    /\ Entries(StandardCounterGetTags(1)) = [k \in Keys |-> LastGiven(addHist, k)]
    /\ last.op = "GetTags" => Entries(last.ref) = [k \in Keys |-> LastGiven(addHist, k)]

\* AddTags({a:1}) then AddTags({a:2, b:3}), and GetTags() returned {a:2, b:3}.
TagsAreRightBiasedUnionWitness ==
    /\ last.op = "GetTags"
    /\ Len(addHist) = 2
    /\ addHist[1] = [k \in Keys |-> IF k = "a" THEN "1" ELSE Absent]
    /\ addHist[2] = [k \in Keys |-> IF k = "a" THEN "2" ELSE "3"]
    /\ Entries(last.ref) = [k \in Keys |-> IF k = "a" THEN "2" ELSE "3"]

\* ---------------------------------------------------------------- NilCounter runs
\* One caller with a NilCounter (NewCounter with UseNilMetrics set) and maps.
InitNil ==
    /\ InitCommon
    /\ kind = [c \in CounterIds |-> IF c = 1 THEN "NilCounter" ELSE "none"]
    /\ count = [c \in CounterIds |-> Zero64]
    /\ tags = [c \in CounterIds |-> Nil]

NextNil ==
    \/ \E e \in TagInputs : CallerMakeMap(e)
    \/ \E c \in CounterIds : SeqNilMutate(c)
    \/ \E c \in CounterIds : SeqNilRead(c)

SpecNil == InitNil /\ [][NextNil]_vars

\* C10: a NilCounter is inert. After any Clear, Inc, Dec, AddTags and Snapshot
\* calls, Count() returns 0, GetTags() returns the nil map, Snapshot() returns a
\* NilCounter, and AddTags neither keeps nor changes the map it is given.
NilCounterInert ==
    [][last'.rk = "NilCounter"
          => /\ ~panicked'
             /\ <<heap, nmaps, snaps, held, kind, count, tags>>'
                    = <<heap, nmaps, snaps, held, kind, count, tags>>
             /\ last'.op = "Count" => last'.num = Zero64
             /\ last'.op = "GetTags" => last'.ref = Nil
             /\ last'.op = "Snapshot" => (last'.resk = "NilCounter" /\ last'.rsnap = 0)]_vars

\* Snapshot() on a NilCounter that was given a map with two tags.
NilCounterInertWitness ==
    /\ last.rk = "NilCounter"
    /\ last.op = "Snapshot"
    /\ \E m \in given[last.rid] : MapLen(heap[m]) = 2

\* ---------------------------------------------------------------- the stress test
\* NThreads goroutines share one fresh StandardCounter; each calls Inc(1)
\* IncsPerThread times. atomic.AddInt64 is one indivisible step, and the
\* goroutines' steps interleave in every order. When all have finished, the
\* test reads Count().
InitStress ==
    /\ InitCommon
    /\ kind = [c \in CounterIds |-> IF c = 1 THEN "StandardCounter" ELSE "none"]
    /\ count = [c \in CounterIds |-> Zero64]
    /\ tags = [c \in CounterIds |-> Nil]

StressInc(t) ==
    /\ done[t] < IncsPerThread
    /\ StandardCounterInc(1, I64(1))
    /\ done' = [done EXCEPT ![t] = @ + 1]
    /\ UNCHANGED <<kind, tags, UseNilMetrics, heapVars, snaps, callerVars, callVars,
                   steps, ghostVars, pc, loc, writing, crashed>>

StressCount ==
    /\ \A t \in Threads : done[t] = IncsPerThread
    /\ last' = Call("Count", "StandardCounter", 1, StandardCounterCount(1), Nil, "none", 0)
    /\ UNCHANGED <<objVars, heapVars, snaps, callerVars, panicked, steps, ghostVars,
                   threadVars>>

NextStress ==
    \/ \E t \in Threads : StressInc(t)
    \/ StressCount

SpecStress == InitStress /\ [][NextStress]_vars

\* f[1] + ... + f[n]
RECURSIVE SumTo(_, _)
SumTo(f, n) == IF n = 0 THEN 0 ELSE f[n] + SumTo(f, n - 1)

\* C2: N threads each call Inc(1) M times on one fresh StandardCounter and
\* nothing else runs on it; in every interleaving, Count() read after all have
\* finished is N * M.
NoLostIncrement ==
    /\ StandardCounterCount(1) = I64(SumTo(done, NThreads))
    /\ last.op = "Count" => last.num = I64(NThreads * IncsPerThread)

\* All threads have finished and Count() has been read.
NoLostIncrementWitness ==
    /\ \A t \in Threads : done[t] = IncsPerThread
    /\ last.op = "Count"
    /\ last.num # Zero64

\* ---------------------------------------------------------------- goroutines
\* Two goroutines call the methods of one StandardCounter with no lock between
\* them. Clear, Count, Dec and Inc are one atomic instruction each. Snapshot and
\* AddTags are sequences of plain memory accesses, one step each: the read of
\* c.tags, each turn of a range loop, each map assignment (which the Go runtime
\* brackets by setting and clearing the map's writing flag). Two accesses to the
\* same map, one of them a write, with nothing ordering them are a data race;
\* the runtime may end the program with "fatal error: concurrent map writes" or
\* "concurrent map iteration and map write", or let the access go on.
ConcThreads == {1, 2}

InitConc ==
    /\ kind = [c \in CounterIds |-> IF c = 1 THEN "StandardCounter" ELSE "none"]
    /\ count = [c \in CounterIds |-> Zero64]
    /\ tags = [c \in CounterIds |-> Nil]
    /\ UseNilMetrics = FALSE
    /\ heap = [m \in MapIds |->
                 IF m = 1 THEN [k \in Keys |-> IF k = "a" THEN "1" ELSE Absent]
                 ELSE IF m = 2 THEN [k \in Keys |-> IF k = "a" THEN "2" ELSE "3"]
                 ELSE EmptyMap]
    /\ nmaps = 2
    /\ snaps = <<>>
    /\ held = {1, 2}
    /\ given = [c \in CounterIds |-> {}]
    /\ fromSnap = {}
    /\ last = NoCall
    /\ panicked = FALSE
    /\ addHist = <<>>
    /\ steps = 0
    /\ netP = 0
    /\ netQ = 0
    /\ pc = [t \in Threads |-> "idle"]
    /\ done = [t \in Threads |-> 0]
    /\ loc = [t \in Threads |-> NoLoc]
    /\ writing = [m \in MapIds |-> {}]
    /\ crashed = FALSE

\* Goroutine t is free to start a call.
CanCall(t) ==
    /\ ~crashed
    /\ pc[t] = "idle"
    /\ done[t] < MaxThreadCalls

\* Goroutine t returns from its call.
Return(t) ==
    /\ pc' = [pc EXCEPT ![t] = "idle"]
    /\ done' = [done EXCEPT ![t] = @ + 1]

\* Another goroutine is inside an assignment to map m.
Racy(t, m) == m # Nil /\ writing[m] \ {t} # {}

seqVars == <<UseNilMetrics, held, given, fromSnap, panicked, addHist, steps, netP, netQ>>

ConcClear(t) ==
    /\ CanCall(t)
    /\ StandardCounterClear(1)
    /\ Return(t)
    /\ last' = Call("Clear", "StandardCounter", 1, Zero64, Nil, "none", 0)
    /\ UNCHANGED <<kind, tags, heapVars, snaps, seqVars, loc, writing, crashed>>

ConcCount(t) ==
    /\ CanCall(t)
    /\ Return(t)
    /\ last' = Call("Count", "StandardCounter", 1, StandardCounterCount(1), Nil, "none", 0)
    /\ UNCHANGED <<kind, count, tags, heapVars, snaps, seqVars, loc, writing, crashed>>

ConcDec(t) ==
    /\ CanCall(t)
    /\ StandardCounterDec(1, I64(1))
    /\ Return(t)
    /\ last' = Call("Dec", "StandardCounter", 1, I64(1), Nil, "none", 0)
    /\ UNCHANGED <<kind, tags, heapVars, snaps, seqVars, loc, writing, crashed>>

ConcInc(t) ==
    /\ CanCall(t)
    /\ StandardCounterInc(1, I64(1))
    /\ Return(t)
    /\ last' = Call("Inc", "StandardCounter", 1, I64(1), Nil, "none", 0)
    /\ UNCHANGED <<kind, tags, heapVars, snaps, seqVars, loc, writing, crashed>>

\* return c.tags
ConcGetTags(t) ==
    /\ CanCall(t)
    /\ Return(t)
    /\ last' = Call("GetTags", "StandardCounter", 1, Zero64, StandardCounterGetTags(1),
                    "none", 0)
    /\ UNCHANGED <<kind, count, tags, heapVars, snaps, seqVars, loc, writing, crashed>>

\* AddTags(m) is entered: if c.tags == nil
ConcAddTagsTest(t, m) ==
    /\ CanCall(t)
    /\ pc' = [pc EXCEPT ![t] = IF tags[1] = Nil THEN "AddTagsSet" ELSE "AddTagsRange"]
    /\ loc' = [loc EXCEPT ![t] = [NoLoc EXCEPT !.arg = m, !.todo = Keys]]
    /\ UNCHANGED <<kind, count, tags, heapVars, snaps, seqVars, last, done, writing,
                   crashed>>

\* c.tags = tags; return
ConcAddTagsSet(t) ==
    /\ ~crashed
    /\ pc[t] = "AddTagsSet"
    /\ tags' = [tags EXCEPT ![1] = loc[t].arg]
    /\ Return(t)
    /\ loc' = [loc EXCEPT ![t] = NoLoc]
    /\ last' = Call("AddTags", "StandardCounter", 1, Zero64, loc[t].arg, "none", 0)
    /\ UNCHANGED <<kind, count, heapVars, snaps, seqVars, writing, crashed>>

\* The keys of map m that a range loop with todo left can still come to.
Ahead(m, todo) == {k \in todo : Entries(m)[k] # Absent}

\* for k, tag := range tags: the loop takes its next entry and enters the
\* assignment c.tags[k] = tag (the map's writing flag is set), or ends.
ConcAddTagsRange(t) ==
    /\ ~crashed
    /\ pc[t] = "AddTagsRange"
    /\ IF Ahead(loc[t].arg, loc[t].todo) = {}
       THEN /\ Return(t)
            /\ loc' = [loc EXCEPT ![t] = NoLoc]
            /\ last' = Call("AddTags", "StandardCounter", 1, Zero64, loc[t].arg, "none", 0)
            /\ UNCHANGED writing
       ELSE \E k \in Ahead(loc[t].arg, loc[t].todo) :
               /\ pc' = [pc EXCEPT ![t] = "AddTagsAssign"]
               /\ loc' = [loc EXCEPT ![t].k = k, ![t].v = heap[loc[t].arg][k],
                                     ![t].dst = tags[1], ![t].todo = @ \ {k}]
               /\ writing' = [writing EXCEPT ![tags[1]] = @ \cup {t}]
               /\ UNCHANGED <<last, done>>
    /\ UNCHANGED <<kind, count, tags, heapVars, snaps, seqVars, crashed>>

\* c.tags[k] = tag is stored and the map's writing flag cleared.
ConcAddTagsAssign(t) ==
    /\ ~crashed
    /\ pc[t] = "AddTagsAssign"
    /\ heap' = [heap EXCEPT ![loc[t].dst][loc[t].k] = loc[t].v]
    /\ writing' = [writing EXCEPT ![loc[t].dst] = @ \ {t}]
    /\ pc' = [pc EXCEPT ![t] = "AddTagsRange"]
    /\ UNCHANGED <<kind, count, tags, nmaps, snaps, seqVars, last, done, loc, crashed>>

\* Snapshot() is entered: if len(c.tags) == 0, else tagsCopy := map[string]string{}
ConcSnapshotTest(t) ==
    /\ CanCall(t)
    /\ Len(snaps) < MaxSnaps
    /\ IF tags[1] = Nil \/ MapLen(heap[tags[1]]) = 0
       THEN /\ loc' = [loc EXCEPT ![t] = [NoLoc EXCEPT !.cnt0 = count[1]]]
            /\ pc' = [pc EXCEPT ![t] = "SnapshotCount"]
            /\ UNCHANGED heapVars
       ELSE /\ nmaps < MaxMaps
            /\ nmaps' = nmaps + 1
            /\ heap' = [heap EXCEPT ![nmaps + 1] = EmptyMap]
            /\ loc' = [loc EXCEPT ![t] = [NoLoc EXCEPT !.src = tags[1],
                                                        !.copy = nmaps + 1,
                                                        !.todo = Keys,
                                                        !.cnt0 = count[1]]]
            /\ pc' = [pc EXCEPT ![t] = "SnapshotRange"]
    /\ UNCHANGED <<kind, count, tags, snaps, seqVars, last, done, writing, crashed>>

\* for k, v := range c.tags { tagsCopy[k] = v }: one turn of the loop, or its end.
ConcSnapshotRange(t) ==
    /\ ~crashed
    /\ pc[t] = "SnapshotRange"
    /\ IF Ahead(loc[t].src, loc[t].todo) = {}
       THEN /\ pc' = [pc EXCEPT ![t] = "SnapshotCount"]
            /\ UNCHANGED <<heap, loc>>
       ELSE \E k \in Ahead(loc[t].src, loc[t].todo) :
               /\ heap' = [heap EXCEPT ![loc[t].copy][k] = heap[loc[t].src][k]]
               /\ loc' = [loc EXCEPT ![t].todo = @ \ {k}]
               /\ UNCHANGED pc
    /\ UNCHANGED <<kind, count, tags, nmaps, snaps, seqVars, last, done, writing, crashed>>

\* A Snapshot that stores the count it loaded when the call began, before the
\* test and the copy of the tags.
ConcSnapshotCountAtEntry(t) ==
    /\ ~crashed
    /\ pc[t] = "SnapshotCount"
    /\ snaps' = Append(snaps, [count |-> loc[t].cnt0, tags |-> loc[t].copy, src |-> 1])
    /\ Return(t)
    /\ loc' = [loc EXCEPT ![t] = [NoLoc EXCEPT !.cnt0 = loc[t].cnt0]]
    /\ last' = Call("Snapshot", "StandardCounter", 1, Zero64, Nil, "CounterSnapshot",
                    Len(snaps) + 1)
    /\ UNCHANGED <<kind, count, tags, heapVars, seqVars, writing, crashed>>

\* return &CounterSnapshot{count: c.Count(), tags: tagsCopy}: the count is loaded
\* here, after the test and the copy of the tags.
ConcSnapshotCount(t) ==
    /\ ~crashed
    /\ pc[t] = "SnapshotCount"
    /\ snaps' = Append(snaps, [count |-> StandardCounterCount(1), tags |-> loc[t].copy,
                               src |-> 1])
    /\ Return(t)
    /\ loc' = [loc EXCEPT ![t] = [NoLoc EXCEPT !.cnt0 = loc[t].cnt0]]
    /\ last' = Call("Snapshot", "StandardCounter", 1, Zero64, Nil, "CounterSnapshot",
                    Len(snaps) + 1)
    /\ UNCHANGED <<kind, count, tags, heapVars, seqVars, writing, crashed>>

\* The runtime finds the map's writing flag set by another goroutine when
\* goroutine t iterates over the map or assigns to it, and ends the program.
ConcFatal(t) ==
    /\ ~crashed
    /\ \/ pc[t] = "SnapshotRange" /\ Racy(t, loc[t].src)
       \/ pc[t] = "AddTagsRange" /\ (Racy(t, loc[t].arg) \/ Racy(t, tags[1]))
       \/ pc[t] = "AddTagsAssign" /\ Racy(t, loc[t].dst)
    /\ crashed' = TRUE
    /\ UNCHANGED <<objVars, heapVars, snaps, seqVars, last, pc, done, loc, writing>>

NextConc ==
    \/ \E t \in ConcThreads : ConcClear(t)
    \/ \E t \in ConcThreads : ConcCount(t)
    \/ \E t \in ConcThreads : ConcDec(t)
    \/ \E t \in ConcThreads : ConcInc(t)
    \/ \E t \in ConcThreads : ConcGetTags(t)
    \/ \E t \in ConcThreads, m \in {Nil, 1, 2} : ConcAddTagsTest(t, m)
    \/ \E t \in ConcThreads : ConcAddTagsSet(t)
    \/ \E t \in ConcThreads : ConcAddTagsRange(t)
    \/ \E t \in ConcThreads : ConcAddTagsAssign(t)
    \/ \E t \in ConcThreads : ConcSnapshotTest(t)
    \/ \E t \in ConcThreads : ConcSnapshotRange(t)
    \/ \E t \in ConcThreads : ConcSnapshotCount(t)
    \/ \E t \in ConcThreads : ConcFatal(t)

SpecConc == InitConc /\ [][NextConc]_vars

\* C9: no call on a NilCounter or a StandardCounter fails, for every argument
\* and in every reachable state, also when several threads call the methods of
\* one StandardCounter at the same time: no call panics and none ends the
\* program with a fatal error.
NoCallFails ==
    /\ ~panicked
    /\ ~crashed

\* ---------------------------------------------------------------- snapshots of snapshots
\* One caller takes up to MaxSnaps + 1 snapshots of one StandardCounter at
\* different values and tags, and calls Count, GetTags and Snapshot on them.
NextSnap ==
    \/ \E e \in TagInputs : CallerMakeMap(e)
    \/ SeqStdInc(1, I64(1))
    \/ \E m \in MapIds \cup {Nil} : SeqStdAddTags(1, m)
    \/ StdSnapshotCall(1, MaxSnaps + 1)
    \/ \E s \in 1..(MaxSnaps + 1) : SeqSnapCount(s)
    \/ \E s \in 1..(MaxSnaps + 1) : SeqSnapGetTags(s)
    \/ \E s \in 1..(MaxSnaps + 1) : SeqSnapSnapshot(s)

SpecSnap == Init /\ [][NextSnap]_vars

\* C11: Snapshot() on a CounterSnapshot returns the receiver itself: the result
\* has the Count() and the GetTags() of the receiver, no object is made or
\* changed, and so it is for every repeated call.
SnapshotOfSnapshotIsReceiver ==
    [][(last'.rk = "CounterSnapshot" /\ last'.op = "Snapshot")
          => /\ last'.resk = "CounterSnapshot"
             /\ last'.rsnap = last'.rid
             /\ \A s \in SnapIds, r \in SnapIds :
                   (last'.rid = s /\ last'.rsnap = r)
                       => /\ CounterSnapshotCount(r)' = CounterSnapshotCount(s)
                          /\ CounterSnapshotGetTags(r)' = CounterSnapshotGetTags(s)
                          /\ SnapView(r)' = SnapView(s)
             /\ snaps' = snaps
             /\ heap' = heap
             /\ ~panicked']_vars

\* Snapshot() was called on the first of two snapshots that differ in count and
\* in tags.
SnapshotOfSnapshotIsReceiverWitness ==
    /\ last.rk = "CounterSnapshot"
    /\ last.op = "Snapshot"
    /\ last.rid = 1
    /\ Len(snaps) = 2
    /\ snaps[1].tags # Nil
    /\ CounterSnapshotCount(1) # CounterSnapshotCount(2)

\* ---------------------------------------------------------------- Clear runs
\* The arithmetic runs with Clear: netP and netQ go on summing every amount, so
\* they say what the counter holds only until the first Clear.
ArithClear ==
    /\ StandardCounterClear(1)
    /\ last' = Call("Clear", "StandardCounter", 1, Zero64, Nil, "none", 0)
    /\ UNCHANGED <<kind, tags, UseNilMetrics, heapVars, snaps, callerVars, panicked,
                   steps, ghostVars, threadVars>>

NextClear ==
    \/ \E a \in Amounts : ArithInc(a)
    \/ \E a \in Amounts : ArithDec(a)
    \/ ArithClear
    \/ ArithCount

SpecClear == InitArith /\ [][NextClear]_vars

\* C12: on a StandardCounter holding any value, Clear() leaves the count 0, and
\* a Count() called next, with no operation in between, returns 0.
ClearThenCountIsZero ==
    [][/\ last'.op = "Clear" => StandardCounterCount(1)' = Zero64
       /\ (last.op = "Clear" /\ last'.op = "Count") => last'.num = Zero64]_vars

\* The counter was brought to 2^63 - 1 by one Inc or Dec, and Count() has
\* returned 0: a Clear came between them.
ClearThenCountIsZeroWitness ==
    /\ last.op = "Count"
    /\ last.num = Zero64
    /\ steps = 1
    /\ Int64Of(netP, netQ) = MaxInt64

\* ---------------------------------------------------------------- construction runs
\* One caller sets and clears UseNilMetrics, constructs counters with NewCounter
\* and calls their methods. No counter exists at the start.
InitNew ==
    /\ InitCommon
    /\ kind = [c \in CounterIds |-> "none"]
    /\ count = [c \in CounterIds |-> Zero64]
    /\ tags = [c \in CounterIds |-> Nil]

NextNew ==
    \/ \E b \in BOOLEAN : SetUseNilMetrics(b)
    \/ SeqNewCounter
    \/ \E e \in TagInputs : CallerMakeMap(e)
    \/ \E c \in CounterIds : SeqStdInc(c, I64(1))
    \/ \E c \in CounterIds : SeqStdCount(c)
    \/ \E c \in CounterIds, m \in MapIds \cup {Nil} : SeqStdAddTags(c, m)
    \/ \E c \in CounterIds : SeqStdGetTags(c)
    \/ \E c \in CounterIds : SeqNilMutate(c)
    \/ \E c \in CounterIds : SeqNilRead(c)

SpecNew == InitNew /\ [][NextNew]_vars

\* C13: NewCounter() returns a NilCounter when UseNilMetrics is set at the time
\* of the call, and otherwise a fresh StandardCounter with Count() = 0 and no
\* tags. The flag is read at construction only: setting or clearing it changes
\* no counter, a counter keeps its kind, and what Count() and GetTags() of a
\* counter return does not depend on the flag.
NewCounterReadsFlagOnce ==
    [][/\ \A c \in CounterIds :
            (last'.op = "NewCounter" /\ last'.rid = c)
                => /\ kind[c] = "none"
                   /\ kind'[c] = (IF UseNilMetrics THEN "NilCounter" ELSE "StandardCounter")
                   /\ last'.resk = kind'[c]
                   /\ kind'[c] = "StandardCounter"
                         => /\ StandardCounterCount(c)' = Zero64
                            /\ StandardCounterGetTags(c)' = Nil
                   /\ \A d \in CounterIds \ {c} :
                         <<kind[d], count[d], tags[d]>>' = <<kind[d], count[d], tags[d]>>
                   /\ heap' = heap
       /\ last'.op = "SetUseNilMetrics"
            => <<kind, count, tags, heap, snaps>>' = <<kind, count, tags, heap, snaps>>
       /\ \A c \in CounterIds : kind[c] # "none" => kind'[c] = kind[c]
       /\ \A c \in CounterIds :
            /\ (StdCall(c, {"Count"})) => last'.num = count[c]
            /\ (StdCall(c, {"GetTags"})) => last'.ref = tags[c]
            /\ (StdCall(c, {"Inc"})) => count'[c] = Add64(count[c], last'.num)
       /\ last'.rk = "NilCounter"
            => /\ <<count, tags, heap>>' = <<count, tags, heap>>
               /\ last'.op = "Count" => last'.num = Zero64
               /\ last'.op = "GetTags" => last'.ref = Nil]_vars

\* A StandardCounter was made with the flag unset and a NilCounter with it set;
\* with the flag still set, Inc and Count on the StandardCounter work as before.
NewCounterReadsFlagOnceWitness ==
    /\ UseNilMetrics
    /\ kind[1] = "StandardCounter"
    /\ kind[2] = "NilCounter"
    /\ last.op = "Count"
    /\ last.rk = "StandardCounter"
    /\ last.rid = 1
    /\ last.num = I64(2)

\* ---------------------------------------------------------------- adoption runs
\* The AddTags runs with a caller that also writes to the maps it holds.
NextAdopt ==
    \/ \E e \in TagInputs : CallerMakeMap(e)
    \/ \E m \in MapIds, k \in Keys, v \in WriteVals : CallerWrite(m, k, v)
    \/ \E m \in MapIds \cup {Nil} : TagsAddTags(1, m)
    \/ SeqStdGetTags(1)

SpecAdopt == Init /\ [][NextAdopt]_vars

\* What AddTags(m) does to counter c when it adopts m, and when it merges m's
\* entries into the map the counter has.
Adopts(c, m) ==
    /\ tags'[c] = m
    /\ heap' = heap
Merges(c, m) ==
    /\ tags'[c] = tags[c]
    /\ \A k \in Keys :
          heap'[tags[c]][k] = (IF Entries(m)[k] # Absent THEN Entries(m)[k]
                               ELSE heap[tags[c]][k])
    /\ \A n \in MapIds \ {tags[c]} : heap'[n] = heap[n]
\* GetTags returns the counter's map itself, and a caller's write to a map is
\* seen through GetTags() exactly when that map is the counter's.
SeenThroughGetTags(c) ==
    /\ StdCall(c, {"GetTags"}) => last'.ref = tags[c]
    /\ last'.op = "Write"
          => /\ tags'[c] = tags[c]
             /\ last'.ref = tags[c]
                   => /\ Entries(StandardCounterGetTags(c))' = heap'[tags[c]]
                      /\ Entries(StandardCounterGetTags(c))' # Entries(StandardCounterGetTags(c))
             /\ last'.ref # tags[c]
                   => Entries(StandardCounterGetTags(c))' = Entries(StandardCounterGetTags(c))

InitCount ==
    /\ kind = [c \in CounterIds |-> IF c = 1 THEN "StandardCounter" ELSE "none"]
    /\ count = [c \in CounterIds |-> Zero64]
    /\ tags \in {[c \in CounterIds |-> Nil], [c \in CounterIds |-> IF c = 1 THEN 2 ELSE Nil]}
    /\ UseNilMetrics = FALSE
    /\ heap = [m \in MapIds |->
                 IF m = 1 THEN [k \in Keys |-> IF k = "a" THEN "1" ELSE Absent]
                 ELSE IF m = 2 THEN [k \in Keys |-> IF k = "a" THEN "2" ELSE "3"]
                 ELSE EmptyMap]
    /\ nmaps = 2
    /\ snaps = <<>>
    /\ held = {1, 2}
    /\ given = [c \in CounterIds |-> IF c = 1 THEN NonNil(tags[1]) ELSE {}]
    /\ fromSnap = {}
    /\ last = NoCall
    /\ panicked = FALSE
    /\ addHist = <<>>
    /\ steps = 0
    /\ netP = 0
    /\ netQ = 0
    /\ pc = [t \in Threads |-> "idle"]
    /\ done = [t \in Threads |-> 0]
    /\ loc = [t \in Threads |-> NoLoc]
    /\ writing = [m \in MapIds |-> {}]
    /\ crashed = FALSE

NextCount ==
    \/ \E t \in ConcThreads : ConcClear(t)
    \/ \E t \in ConcThreads : ConcCount(t)
    \/ \E t \in ConcThreads : ConcDec(t)
    \/ \E t \in ConcThreads : ConcInc(t)
    \/ \E t \in ConcThreads : ConcSnapshotTest(t)
    \/ \E t \in ConcThreads : ConcSnapshotRange(t)
    \/ \E t \in ConcThreads : ConcSnapshotCount(t)

SpecCount == InitCount /\ [][NextCount]_vars

\* Goroutine t's call returns in this step.
Returns(t) == done'[t] = done[t] + 1
\* Goroutine t's Snapshot call returns in this step; the CounterSnapshot it
\* made is the last of snaps'.
SnapshotReturns(t) == Returns(t) /\ last'.op = "Snapshot"
\* Goroutine t is inside Snapshot, at or after the test of the tags.
InSnapshot(t) == pc[t] \in {"SnapshotRange", "SnapshotCount"}

\* C15 as stated: Snapshot() loads the count first and only then tests and
\* copies the tags, so the count a snapshot holds is the count the counter had
\* when the call began, whatever Inc, Dec or Clear took effect during the test
\* and the copy.
SnapshotLoadsCountFirst ==
    [][\A t \in ConcThreads :
          SnapshotReturns(t) => snaps'[Len(snaps')].count = loc[t].cnt0]_vars

\* C15, amended: Snapshot() tests the tags first (len(c.tags) == 0), copies
\* them entry by entry when there are any, and loads the count last, in the
\* return statement: the count a snapshot holds is the count the counter has
\* when the call returns, after the test and the whole copy, so an Inc, Dec or
\* Clear that takes effect during the test or the copy is in the snapshot.
SnapshotLoadsCountLast ==
    [][\A t \in ConcThreads :
          /\ (<<pc[t], loc[t]>>' # <<pc[t], loc[t]>> /\ InSnapshot(t)' /\ ~Returns(t))
                => <<snaps, count>>' = <<snaps, count>>
          /\ SnapshotReturns(t)
                => /\ pc[t] = "SnapshotCount"
                   /\ snaps'[Len(snaps')].count = count[1]
                   /\ loc[t].copy # Nil => heap[loc[t].copy] = heap[loc[t].src]]_vars

\* A Snapshot that began when the count was 1 and copied two tags has returned
\* a snapshot with count 0: the other goroutine's Dec or Clear came between.
SnapshotLoadsCountLastWitness ==
    /\ last.op = "Snapshot"
    /\ Len(snaps) = 1
    /\ snaps[1].count = Zero64
    /\ snaps[1].tags # Nil
    /\ MapLen(heap[snaps[1].tags]) = 2
    /\ \E t \in ConcThreads : pc[t] = "idle" /\ loc[t].cnt0 = I64(1)

\* C16: under concurrent Inc, Dec and Clear callers on one StandardCounter, each
\* Inc, Dec and Clear takes effect in one step, the count changes in no other
\* step, and every value Count() returns and every count Snapshot() stores is
\* the whole value the counter holds at one instant of that call: no read sees
\* a torn or never-held value, and the calls are linearizable in the order of
\* these steps.
CountReadsAreLinearizable ==
    [][/\ \A t \in ConcThreads :
            Returns(t)
               => /\ last'.rid = 1
                  /\ last'.op = "Inc" => count'[1] = Add64(count[1], last'.num)
                  /\ last'.op = "Dec" => count'[1] = Add64(count[1], Neg64(last'.num))
                  /\ last'.op = "Clear" => count'[1] = Zero64
                  /\ last'.op = "Count" => (last'.num = count[1] /\ count' = count)
                  /\ last'.op = "Snapshot"
                        => (snaps'[Len(snaps')].count = count[1] /\ count' = count)
       /\ (\A t \in ConcThreads : ~Returns(t)) => count' = count
       /\ count'[1] \in {I64(n) : n \in (0 - 2 * MaxThreadCalls)..(2 * MaxThreadCalls)}]_vars

\* Count() has returned -1 while the other goroutine is inside a Snapshot that
\* began when the count was 0.
CountReadsAreLinearizableWitness ==
    /\ last.op = "Count"
    /\ last.num = I64(-1)
    /\ count[1] = I64(-1)
    /\ \E u \in ConcThreads : pc[u] = "SnapshotCount" /\ loc[u].cnt0 = Zero64

\* ---------------------------------------------------------------- memory accesses
\* The shared memory a method touches: the fields count and tags of the
\* StandardCounter, and the maps. An access is by a sync/atomic call or plain.
CountField == [f |-> "count", m |-> Nil]
TagsField == [f |-> "tags", m |-> Nil]
MapAt(m) == [f |-> "map", m |-> m]
AtomicAccess(op, at, w) == [op |-> op, at |-> at, write |-> w, atomic |-> TRUE]
PlainAccess(op, at, w) == [op |-> op, at |-> at, write |-> w, atomic |-> FALSE]
\* The accesses to the maps in ms (nil is no map).
PlainMapAccesses(op, ms, w) == {PlainAccess(op, MapAt(m), w) : m \in ms \ {Nil}}

\* A Count that reads the field without sync/atomic: return c.count
StandardCounterCountAccessPlain == PlainAccess("Count", CountField, FALSE)
\* atomic.LoadInt64(&c.count)
StandardCounterCountAccess == AtomicAccess("Count", CountField, FALSE)
\* atomic.StoreInt64(&c.count, 0)
StandardCounterClearAccess == AtomicAccess("Clear", CountField, TRUE)
\* atomic.AddInt64(&c.count, -i)
StandardCounterDecAccess == AtomicAccess("Dec", CountField, TRUE)
\* atomic.AddInt64(&c.count, i)
StandardCounterIncAccess == AtomicAccess("Inc", CountField, TRUE)
\* return c.tags
StandardCounterGetTagsAccess == PlainAccess("GetTags", TagsField, FALSE)

\* The accesses the first step of each call makes: AddTags reads c.tags
\* (c.tags == nil), Snapshot reads c.tags and the map's length (len(c.tags)).
CallAccesses ==
    {StandardCounterClearAccess, StandardCounterCountAccess, StandardCounterDecAccess,
     StandardCounterIncAccess, StandardCounterGetTagsAccess,
     PlainAccess("AddTags", TagsField, FALSE), PlainAccess("Snapshot", TagsField, FALSE)}
        \cup PlainMapAccesses("Snapshot", {tags[1]}, FALSE)

\* The accesses goroutine t's next step can make.
NextAccesses(t) ==
    IF crashed THEN {}
    ELSE IF pc[t] = "idle" THEN (IF CanCall(t) THEN CallAccesses ELSE {})
    ELSE IF pc[t] = "AddTagsSet" THEN {PlainAccess("AddTags", TagsField, TRUE)}
    ELSE IF pc[t] = "AddTagsRange"
         THEN {PlainAccess("AddTags", TagsField, FALSE)}
                 \cup PlainMapAccesses("AddTags", {loc[t].arg}, FALSE)
    ELSE IF pc[t] = "AddTagsAssign" THEN PlainMapAccesses("AddTags", {loc[t].dst}, TRUE)
    ELSE IF pc[t] = "SnapshotRange" THEN PlainMapAccesses("Snapshot", {loc[t].src}, FALSE)
    ELSE {[StandardCounterCountAccess EXCEPT !.op = "Snapshot"]}

\* A data race: two goroutines' next accesses are to the same place, one at
\* least writes, one at least is plain, and nothing orders them.
Conflict(a, b) ==
    /\ a.at = b.at
    /\ a.write \/ b.write
    /\ ~(a.atomic /\ b.atomic)
Races ==
    {<<a, b>> \in UNION {NextAccesses(t) \X NextAccesses(u) :
                            <<t, u>> \in {p \in ConcThreads \X ConcThreads : p[1] # p[2]}} :
        Conflict(a, b)}

\* C17: the tag map of a StandardCounter is unprotected shared state, and the
\* count is not: no access to the count field is ever in a data race, so every
\* data race there is, is on c.tags or on a map, with an AddTags call on one
\* side. The witness is an interleaving in which an AddTags call races with
\* another AddTags call, with a GetTags call and with a Snapshot call.
OnlyTagsRace ==
    \A r \in Races :
        /\ r[1].at # CountField
        /\ r[1].at.f \in {"tags", "map"}
        /\ "AddTags" \in {r[1].op, r[2].op}

\* A goroutine inside AddTags is about to store c.tags, and the other is free
\* to call AddTags, GetTags or Snapshot, whose reads of c.tags nothing orders
\* with that store.
OnlyTagsRaceWitness ==
    \E t \in ConcThreads :
        /\ pc[t] = "AddTagsSet"
        /\ \A op \in {"AddTags", "GetTags", "Snapshot"} :
              \E r \in Races : r[1].op = "AddTags" /\ r[1].write /\ r[2].op = op
                               /\ r[1].at = TagsField

\* ---------------------------------------------------------------- frame
\* The keys GetTags() of counter c has.
TagKeys(c) == {k \in Keys : Entries(StandardCounterGetTags(c))[k] # Absent}
\* What the value operations and the tag operations of counter c leave alone.
OperationsKeepTheOther(c) ==
    /\ StdCall(c, {"Clear", "Inc", "Dec", "Count", "Snapshot"})
          => /\ tags'[c] = tags[c]
             /\ Entries(tags[c])' = Entries(tags[c])
    /\ StdCall(c, {"AddTags", "GetTags", "Count", "Snapshot"}) => count'[c] = count[c]
    /\ StdCall(c, {"Clear"}) => count'[c] = Zero64
    /\ count'[c] # count[c] => StdCall(c, {"Clear", "Inc", "Dec"})

\* C18 as stated: the value and the tags of a StandardCounter are changed only
\* by their own operations. Clear, Inc, Dec, Count and Snapshot leave the tags
\* unchanged, AddTags, GetTags, Count and Snapshot leave the value unchanged,
\* the tags change in an AddTags call only, and the key set of GetTags() only
\* grows over the counter's lifetime.
TagKeysOnlyGrow ==
    [][\A c \in CounterIds : Std(c) =>
          /\ OperationsKeepTheOther(c)
          /\ Entries(tags[c])' # Entries(tags[c]) => StdCall(c, {"AddTags"})
          /\ TagKeys(c) \subseteq TagKeys(c)']_vars

\* C18, amended: no operation of a StandardCounter changes what is not its own
\* (as above), and none removes a tag key, so the key set of GetTags() grows
\* with every call. Besides AddTags, the tags are changed by a caller's write
\* to the counter's map, which the caller holds (AddTags adopted it from the
\* caller, and GetTags returns it): a key leaves the key set of GetTags()
\* exactly when the caller deletes it from that map.
TagKeysGrowUnlessCallerDeletes ==
    [][\A c \in CounterIds : Std(c) =>
          /\ OperationsKeepTheOther(c)
          /\ Entries(tags[c])' # Entries(tags[c])
                => \/ StdCall(c, {"AddTags"})
                   \/ (last'.op = "Write" /\ last'.ref = tags[c])
          /\ last'.op # "Write" => TagKeys(c) \subseteq TagKeys(c)'
          /\ ~(TagKeys(c) \subseteq TagKeys(c)')
                => /\ last'.op = "Write"
                   /\ last'.ref = tags[c]
                   /\ tags[c] \in held
                   /\ \E k \in Keys : heap[tags[c]][k] # Absent /\ heap'[tags[c]][k] = Absent]_vars

\* Clear has reset a counter that a snapshot shows at 1, and the counter has
\* kept its two tags.
TagKeysGrowUnlessCallerDeletesWitness ==
    /\ last.op = "Clear"
    /\ last.rk = "StandardCounter"
    /\ Len(snaps) = 1
    /\ snaps[1].count = I64(1)
    /\ count[1] = Zero64
    /\ TagKeys(1) = Keys

====
